---------------------------- MODULE Spec2Model ----------------------------
(***************************************************************************)
(* Hexapod controller: the control loop (gait_loop), the pose fan-out      *)
(* (update_servos), and the command handlers that write the controller's   *)
(* state (REST, WebSocket, joystick, patrol, poses).                       *)
(*                                                                         *)
(* Units.  All numbers are integers:                                       *)
(*   heading, body_pitch, body_roll, body_yaw, rotation_speed : degrees    *)
(*   (degrees per second for rotation_speed)                               *)
(*   speed, turn_rate, joystick axes : hundredths (1.0 is 100)             *)
(*   patrol settings speed : percent, so speed = settings speed / 100.0    *)
(*   is the same number of hundredths                                      *)
(*   body_height : mm;  leg_spread : percent                               *)
(*   dt : whole seconds;  gait_time : hundredths of a second               *)
(*   (dt seconds times speed hundredths)                                   *)
(***************************************************************************)
EXTENDS Integers, FiniteSets, Sequences, TLC

\* ------------------------------------------------------------------ bounds

\* Largest elapsed time (seconds) one loop iteration measures.  The loop
\* awaits the telemetry broadcast, so dt has no upper limit in the code.
MaxDt == 2

\* gait_time is never reset by the code; the model stops advancing it here.
MaxGaitTime == 100

\* Most joystick callbacks the executor thread delivers while one handler of
\* the event loop (a loop iteration, an emergency stop) is in progress: a
\* gamepad emits events far more slowly than a handler runs.
MaxJoyEvents == 1

\* Most entries of ConnectionManager.active.
MaxActive == 2

\* Most connect calls awaiting accept() at one time.
MaxAccepting == 2

\* ------------------------------------------------------- program constants

NumLegs == 6

NumJoints == 3

Legs == 0 .. (NumLegs - 1)

Joints == 0 .. (NumJoints - 1)

AllPairs == Legs \X Joints

\* Rotation in degrees per second that a full turn rate maps to.
TurnToRotation == 90

\* Gaits of the default configuration, all enabled.
GaitIds == {"tripod", "wave", "ripple", "creep"}

\* Poses of the default configuration.
DefaultPoses ==
    [p \in {"default_stance", "low_stance", "high_stance", "rest_pose",
            "power_off"} |->
        [height |-> CASE p = "default_stance" -> 90
                      [] p = "low_stance" -> 70
                      [] p = "high_stance" -> 120
                      [] p = "rest_pose" -> 50
                      [] OTHER -> 40,
         roll |-> 0, pitch |-> 0, yaw |-> 0,
         leg_spread |-> CASE p = "default_stance" -> 110
                          [] p = "low_stance" -> 115
                          [] p = "high_stance" -> 105
                          [] p = "rest_pose" -> 130
                          [] OTHER -> 110,
         builtin |-> p = "default_stance"]]

\* ------------------------------------------------------------ input sets

\* Elapsed times the loop may measure.
DtValues == 0 .. MaxDt

\* "speed" of a WebSocket move message (hundredths).
MoveSpeedInputs == {-50, 50, 250}

\* "heading" of a WebSocket move message (degrees).
MoveHeadingInputs == {0, 270}

\* "turn" of a WebSocket move message (hundredths).
MoveTurnInputs == {-100, 0, 250}

\* "speed" of a POST /api/rotation body (degrees per second).
RotationInputs == {0, 90, -999}

\* Axis pairs <<x, y>> (hundredths) the keyboard fallback emits (w, s, a, d).
KeyInputs == {<<0, 100>>, <<0, -100>>, <<-100, 0>>, <<100, 0>>}

\* Axis pairs a gamepad emits: inside the dead zone, half and full deflection.
PadInputs == {<<5, 5>>, <<0, 50>>, <<0, -100>>, <<100, 0>>}

\* Gaits the keyboard fallback (1, 2, 3) and the gamepad (TL, TR) can name.
JoyGaits == {"tripod", "wave", "ripple"}

\* "mode" of a REST or WebSocket set-gait request; "hop" is no gait at all.
GaitRequests == {"tripod", "wave", "ripple", "creep", "hop"}

\* "gait" of a POST /api/gaits enable or disable request.
GaitToggles == {"tripod", "wave", "hop"}

\* "speed" of a patrol start or patrol settings body: absent or a percentage.
PatrolSpeedBodies == {{}, {30}, {150}}

\* "route_id" of a patrol start and "id" of a saved route.
RouteIds == {"r1", "r2"}

\* (leg, joint) pairs whose servo write raises, fixed for a run (a
\* PCA9685 calibration map without that key).
BadSets == {{}, {<<0, 0>>}, {<<2, 1>>}, {<<5, 2>>}, {<<1, 0>>, <<4, 2>>}}

\* Bodies of POST /api/poses create (all five values given).
PoseBodies ==
    {[height |-> 500, roll |-> -90, pitch |-> 10, yaw |-> 60, leg_spread |-> 20]}

\* Bodies of POST /api/poses update (any subset of the values).
PoseUpdateBodies == {[height |-> 10, yaw |-> -60]}

\* "pose_id" of the pose requests.
PoseTargets == {"default_stance", "crawl"}

\* "poses" of a POST /api/config body: stored as given.
ConfigPoseBodies ==
    {("crawl" :> [height |-> 500, roll |-> 0, pitch |-> 45, yaw |-> 0,
                  leg_spread |-> 200]),
     ("crawl" :> [height |-> 80])}

\* Bodies of the body-pose requests: any subset of pitch, roll and yaw.
BodyPoseBodies == {[pitch |-> 45], [roll |-> -10, yaw |-> 90]}

\* Body-pose bodies with a value float() rejects: the numeric values, and
\* under "invalid" the key that carries the rejected value.
InvalidPoseBodies ==
    {[invalid |-> "pitch", roll |-> 5], [pitch |-> 10, invalid |-> "roll"],
     [pitch |-> -45, roll |-> 20, invalid |-> "yaw"]}

\* "height" and "spread" of the body-height and leg-spread requests.
HeightInputs == {300, -50}

SpreadInputs == {20}

\* "preset" of a WebSocket pose message.
Presets == {"crouch", "neutral", "other"}

\* Names of the stored profiles.
Profiles == {"default", "outdoor"}

\* Bodies of POST /api/config that carry leg lengths or gait parameters.
ConfigBodies ==
    {[leg_femur_length |-> 60], [leg_femur_length |-> 50],
     [step_height |-> 500], [cycle_time |-> 10, step_length |-> 5]}

\* Bodies of POST /api/config that carry "gaits", given as the ids of the
\* gaits the body has enabled.
GaitsBodies == {[gaits |-> {"wave", "ripple"}]}

\* The keys k of those bodies with 'leg' in k and 'length' in k.
LegLengthKeys == {"leg_coxa_length", "leg_femur_length", "leg_tibia_length"}

\* Bodies of POST /api/gait/params: any subset of the three parameters.
GaitParamBodies ==
    {[step_height |-> 500], [step_height |-> 30, step_length |-> 0],
     [cycle_time |-> 10], [cycle_time |-> 200, step_length |-> 60]}

\* Gait-parameter bodies with a value float() rejects, written as the
\* body-pose ones.
InvalidParamBodies ==
    {[invalid |-> "step_height", cycle_time |-> 200],
     [step_height |-> 30, invalid |-> "cycle_time"],
     [step_length |-> 500, invalid |-> "cycle_time"]}

\* "mode" of a direct joint_angles_for_time call: any string.
EngineModes == {"tripod", "wave", "ripple", "creep", "invalid_mode"}

\* dt of a direct GaitEngine.update call (hundredths of a second).
EngineDts == {10, 25}

\* Targets (x, y, z) of a direct InverseKinematics.solve call, in mm; the
\* horizontal distance sqrt(x^2 + y^2) of each is a whole number.
IKTargets ==
    {<<200, 0, 0>>, <<18, 0, 0>>, <<120, 0, 0>>, <<20, 0, 0>>, <<30, 0, -80>>,
     <<30, 40, -60>>, <<15, 0, -106>>, <<0, 0, -50>>, <<9, 12, -4>>}

\* The WebSocket objects handed to the connection manager.
Sockets == {"w1", "w2", "w3"}

\* --------------------------------------------------------------- helpers

Min(a, b) == IF b < a THEN b ELSE a

Max(a, b) == IF b > a THEN b ELSE a

\* max(lo, min(hi, v))
Clamp(lo, hi, v) == Max(lo, Min(hi, v))

Abs(a) == IF a < 0 THEN -a ELSE a

\* math.sqrt(x**2 + y**2), rounded down.
Magnitude(x, y) ==
    CHOOSE r \in 0 .. (Abs(x) + Abs(y)) :
        r * r <= x * x + y * y /\ (r + 1) * (r + 1) > x * x + y * y

\* math.degrees(math.atan2(x, y)) on the axis and diagonal directions.
Atan2Deg(x, y) ==
    CASE x = 0 /\ y > 0 -> 0
      [] x = 0 /\ y < 0 -> 180
      [] x > 0 /\ y = 0 -> 90
      [] x < 0 /\ y = 0 -> -90
      [] x > 0 /\ y > 0 /\ x = y -> 45
      [] x > 0 /\ y < 0 /\ x = -y -> 135
      [] x < 0 /\ y > 0 /\ -x = y -> -45
      [] x < 0 /\ y < 0 /\ x = y -> -135
      [] OTHER -> 0

\* dict.get(key, default) on a record standing for a dict.
Get(d, key, default) == IF key \in DOMAIN d THEN d[key] ELSE default

\* ------------------------------------------------------------- variables

VARIABLES
    \* HexapodController
    running, gait_mode, speed, heading, body_height, body_pitch, body_roll,
    body_yaw, leg_spread, rotation_speed, ground_contacts,
    \* GaitEngine
    gait_time, turn_rate,
    \* deployment: joystick mode and the servo writes that raise
    joy_mode, bad,
    \* gait_loop: position, measured dt
    pc, tick_dt,
    \* update_servos: loop index, base_angles, angles, servo calls made
    leg, base, angles, calls,
    \* the controller's fields as they were when the current tick began
    snap,
    \* emergency_stop: number of assignments already executed (0 = not running)
    epc,
    \* joystick callbacks delivered since the event loop was last free
    joy_events,
    \* configuration: ids of the enabled gaits, stored poses
    enabled, poses,
    \* the last set-gait request: its path, its mode, whether it was applied
    last_gait,
    \* patrol_state: status, settings["speed"], ids of the saved routes
    patrol_status, patrol_speed, routes,
    \* ProfileManager: name of the current profile; per profile, the
    \* configured (coxa, femur, tibia) lengths
    current_profile, leg_geometry,
    \* GaitEngine.ik: the lengths the IK solver was constructed with
    ik,
    \* GaitEngine: step_height and step_length (mm), cycle_time (hundredths
    \* of a second)
    step_height, step_length, cycle_time,
    \* per profile, the configured step_height, step_length and cycle_time
    cfg_gait,
    \* per profile, the enabled gaits its file holds (read when the profile
    \* is loaded); the enabled gaits of HexapodConfig.DEFAULTS["gaits"];
    \* whether the loaded configuration's "gaits" is that same object
    cfg_enabled, defaults_enabled, aliased,
    \* the outcome of the last call of the operations that record it
    reply,
    \* ConnectionManager.active; per socket, the connect calls now awaiting
    \* accept(); the sockets whose send_json raises
    active, accepting, failing,
    \* broadcast: the copy of active it iterates, its position in the copy
    \* (0 = no broadcast in progress), per socket the sends that succeeded
    bc_copy, bc_i, received

motion == <<running, speed, heading, rotation_speed>>

posture == <<body_height, body_pitch, body_roll, body_yaw, leg_spread>>

\* The controller fields the command handlers write.
robot == <<motion, gait_mode, posture>>

engine == <<gait_time, turn_rate>>

deploy == <<joy_mode, bad>>

tick == <<pc, tick_dt, leg, base, angles, calls, snap>>

gaitcfg == <<enabled, last_gait>>

patrol == <<patrol_status, patrol_speed, routes>>

\* The stored configuration of the profiles and what was built from it.
params == <<step_height, step_length, cycle_time>>

\* The enabled gaits of the profiles that are not loaded and of the
\* class-level DEFAULTS, and whether the loaded configuration's "gaits"
\* is the DEFAULTS object itself.
gaitstore == <<cfg_enabled, defaults_enabled, aliased>>

stored == <<current_profile, leg_geometry, ik, params, cfg_gait, gaitstore>>

conn == <<active, accepting, failing, bc_copy, bc_i, received>>

conf == <<stored, reply, conn>>

vars == <<robot, ground_contacts, engine, deploy, tick, epc, joy_events,
          gaitcfg, poses, patrol, conf>>

\* The controller and engine fields the pose computation reads.
State ==
    [running |-> running, gait_mode |-> gait_mode, speed |-> speed,
     heading |-> heading, body_height |-> body_height,
     body_pitch |-> body_pitch, body_roll |-> body_roll,
     body_yaw |-> body_yaw, leg_spread |-> leg_spread,
     rotation_speed |-> rotation_speed, gait_time |-> gait_time,
     turn_rate |-> turn_rate]

\* The event loop is between handlers: the gait loop is suspended in its
\* sleep (or broadcast) and no synchronous handler is in progress.
LoopFree == pc = "sleep" /\ epc = 0

\* A joystick callback can run now.  The keyboard fallback invokes the
\* callbacks on the event loop, so only between handlers; the gamepad loop
\* runs in the default executor's worker thread and invokes them there, at
\* any point of a handler of the event loop.
\*   "none"     create_app(use_controller=False)
\*   "keyboard" the inputs library is missing
\*   "inputs"   the inputs library is present
JoyCanRun ==
    IF joy_mode = "inputs"
    THEN LoopFree \/ joy_events < MaxJoyEvents
    ELSE joy_mode = "keyboard" /\ LoopFree

\* The count of callbacks delivered while a handler is in progress.
JoyCount == IF LoopFree THEN 0 ELSE joy_events + 1

\* ------------------------------------------------------------ GaitEngine

\* The step_height, step_length (mm) and cycle_time (hundredths of s) the
\* controller constructs the engine with.
StepHeight == 25

StepLength == 40

CycleTime == 120

\* DEFAULTS["gaits"]: phase_offsets of each gait definition, in sixtieths
\* of a cycle (0.167, 0.333, ... are sixths).
GaitDefinitions ==
    [tripod |-> <<0, 30, 0, 30, 0, 30>>,
     wave |-> <<0, 10, 20, 30, 40, 50>>,
     ripple |-> <<0, 15, 30, 45, 6, 36>>,
     creep |-> <<0, 10, 20, 30, 40, 50>>]

\* _phase_for_leg falling back to wave's offsets for a mode it does not
\* know.
phase_for_leg_wave(l, mode) ==
    CASE mode = "tripod" -> (IF l \in {0, 2, 4} THEN 0 ELSE 30)
      [] mode = "ripple" -> <<0, 15, 30, 45, 6, 36>>[(l % 6) + 1]
      [] OTHER -> l * 10

\* _phase_for_leg, in sixtieths of a cycle.
phase_for_leg(l, mode) ==
    CASE mode = "tripod" -> (IF l \in {0, 2, 4} THEN 0 ELSE 30)
      [] mode = "wave" -> l * 10
      [] mode = "ripple" -> <<0, 15, 30, 45, 6, 36>>[(l % 6) + 1]
      [] OTHER -> 0

\* swing = local_t < 0.5, local_t = ((t / cycle_time) + phase) % 1.0
Swing(l, t, mode) ==
    LET local ==
            (t * 60 + phase_for_leg(l, mode) * cycle_time) % (60 * cycle_time)
    IN  2 * local < 60 * cycle_time

\* cycle_pos as a fraction <<n, d>>: local_t * 2.0 in swing and
\* (local_t - 0.5) * 2.0 in stance.
CyclePos(l, t, mode) ==
    LET d == 60 * cycle_time
        local == (t * 60 + phase_for_leg(l, mode) * cycle_time) % d
    IN  IF 2 * local < d THEN <<2 * local, d>> ELSE <<2 * local - d, d>>

\* 1000 * math.sin(cycle_pos * math.pi) for cycle_pos = c[1] / c[2] in
\* [0, 1), by Bhaskara's rational approximation 16x(1-x) / (5 - 4x(1-x)):
\* zero at 0, positive inside the interval, at most 1000.
SinPiMilli(c) ==
    LET p == c[1] * (c[2] - c[1])
    IN  (16 * p) \div ((5 * c[2] * c[2] - 4 * p) \div 1000)

\* lift_angle in thousandths of a degree: 5 + (step_height - 10) / 40 * 20,
\* clamped to [5, 25].
LiftAngle == Clamp(5000, 25000, 5000 + (step_height - 10) * 500)

\* swing_angle in thousandths of a degree: base_swing_angle =
\* 3 + (step_length - 10) / 70 * 12 clamped to [3, 15], times
\* turn_modifier = 1 -/+ turn_rate * 0.8 clamped to [0.1, 2.0].
SwingAngle(l, turn) ==
    LET base_swing_angle ==
            Clamp(3000, 15000, 3000 + ((step_length - 10) * 12000) \div 70)
        turn_modifier ==
            Clamp(100, 2000, IF l \in {0, 1, 2} THEN 1000 - turn * 8
                             ELSE 1000 + turn * 8)
    IN  (base_swing_angle * turn_modifier) \div 1000

\* joint_angles_for_time: the triple of leg l in thousandths of a degree.
engine_angles(l, s) ==
    LET sin == SinPiMilli(CyclePos(l, s.gait_time, s.gait_mode))
        swing == Swing(l, s.gait_time, s.gait_mode)
        sweep == (sin * SwingAngle(l, s.turn_rate)) \div 1000
    IN  [coxa |-> IF swing THEN 90000 + sweep ELSE 90000 - sweep,
         femur |-> IF swing THEN 75000 + (sin * LiftAngle) \div 1000
                   ELSE 67000,
         tibia |-> IF swing THEN 180000 + (sin * (LiftAngle \div 2)) \div 1000
                   ELSE 180000]

\* joint_angles_for_time: per leg, the centre of the coxa sweep and the
\* engine inputs the leg's triple is a function of.
joint_angles_for_time(s) ==
    [l \in Legs |->
        [coxa |-> 90,
         src |-> [walking |-> TRUE, t |-> s.gait_time, mode |-> s.gait_mode,
                  turn |-> s.turn_rate, height |-> 0, pitch |-> 0,
                  roll |-> 0, spread |-> 0, solved |-> TRUE]]]

\* InverseKinematics.solve checking only the far limit of the reach.
solve_far_only(x, y, z, lengths) ==
    LET r_horiz == Magnitude(x, y) - lengths[1]
        r2 == r_horiz * r_horiz + z * z
        reach_max == lengths[2] + lengths[3]
    IN  r2 <= reach_max * reach_max

\* InverseKinematics.solve: TRUE when it returns a triple, FALSE when it
\* raises ValueError.  r = sqrt(r_horiz^2 + r_vert^2) is compared with
\* reach_min and reach_max by its square.
solve(x, y, z, lengths) ==
    LET r_horiz == Magnitude(x, y) - lengths[1]
        r2 == r_horiz * r_horiz + z * z
        reach_min == Abs(lengths[2] - lengths[3])
        reach_max == lengths[2] + lengths[3]
    IN  ~(r2 < reach_min * reach_min \/ r2 > reach_max * reach_max)

\* self.ik.solve(x, y, z) called by a client of the engine alone.
ik_solve(t) ==
    /\ LoopFree
    /\ reply' = [ok |-> solve(t[1], t[2], t[3], ik), type |-> "solve",
                 value |-> t]
    /\ UNCHANGED <<robot, ground_contacts, engine, deploy, tick, epc,
                   joy_events, gaitcfg, poses, patrol, stored, conn>>

\* GaitEngine.update called by a client of the engine alone.
engine_update(dt) ==
    /\ LoopFree
    /\ gait_time + dt <= MaxGaitTime
    /\ gait_time' = gait_time + dt
    /\ UNCHANGED <<robot, ground_contacts, turn_rate, deploy, tick, epc,
                   joy_events, gaitcfg, poses, patrol, conf>>

\* GaitEngine.joint_angles_for_time(self.time, mode) called by a client of
\* the engine alone; base holds the list returned.
engine_joint_angles_for_time(mode) ==
    /\ LoopFree
    /\ base' = joint_angles_for_time([State EXCEPT !.gait_mode = mode])
    /\ UNCHANGED <<robot, ground_contacts, engine, deploy, pc, tick_dt, leg,
                   angles, calls, snap, epc, joy_events, gaitcfg, poses,
                   patrol, conf>>

\* ------------------------------------------------------ HexapodController

\* DEFAULTS: leg_<n>_attach_x and leg_<n>_attach_y (mm).
LegMountPositions ==
    [l \in Legs |-> <<<<150, 120>>, <<0, 150>>, <<-150, 120>>, <<-150, -120>>,
                      <<0, -150>>, <<150, -120>>>>[l + 1]]

\* 1000 * math.sin(math.radians(d)), rounded, for the tilts in use.
SinMilli(d) ==
    CASE d = 0 -> 0
      [] d = 10 -> 174
      [] d = -10 -> -174
      [] d = 30 -> 500
      [] d = -30 -> -500
      [] d = 45 -> 707
      [] d = -45 -> -707
      [] OTHER -> 0

\* calculate_standing_pose: the vertical drop of leg l in whole mm, clamped
\* to [10, 0.95 * usable_reach] with usable_reach = 0.85 * (L2 + L3).
VerticalDrop(l, s, lengths) ==
    LET m == LegMountPositions[l]
        offset == (m[1] * SinMilli(s.body_pitch)
                   + m[2] * SinMilli(s.body_roll)) \div 1000
    IN  Max(10, Min((s.body_height + 10) + offset,
                    (8075 * (lengths[2] + lengths[3])) \div 10000))

\* InverseKinematics.solve raises ValueError for the standing target of leg
\* l: r < |L2 - L3| or r > L2 + L3, where r^2 = r_horiz^2 + r_vert^2,
\* r_horiz = sqrt(usable_reach^2 - drop^2) * leg_spread / 100 and
\* r_vert = -drop.  Both sides are scaled by 10^4.
Unreachable(l, s, lengths) ==
    LET reach == lengths[2] + lengths[3]
        drop == VerticalDrop(l, s, lengths)
        r2 == ((7225 * reach * reach) \div 10000 - drop * drop)
                  * s.leg_spread * s.leg_spread
              + drop * drop * 10000
    IN  \/ r2 < (lengths[2] - lengths[3]) * (lengths[2] - lengths[3]) * 10000
        \/ r2 > reach * reach * 10000

\* The inputs of a solved standing leg's IK femur and tibia.
StandingSrc(s) ==
    [walking |-> FALSE, t |-> 0, mode |-> "", turn |-> 0,
     height |-> s.body_height, pitch |-> s.body_pitch, roll |-> s.body_roll,
     spread |-> s.leg_spread, solved |-> TRUE]

\* The safe default femur 70.0 and tibia 90.0: a function of no input.
FallbackSrc ==
    [walking |-> FALSE, t |-> 0, mode |-> "", turn |-> 0, height |-> 0,
     pitch |-> 0, roll |-> 0, spread |-> 0, solved |-> FALSE]

\* calculate_standing_pose with one try block around its loop over the
\* legs: a leg out of reach puts every leg at the safe default.
calculate_standing_pose_together(s) ==
    [l \in Legs |->
        [coxa |-> 90 + s.body_yaw,
         src |-> IF \E k \in Legs : Unreachable(k, s, ik)
                 THEN FallbackSrc ELSE StandingSrc(s)]]

\* calculate_standing_pose: per leg, coxa = 90 + body_yaw and either the
\* IK femur and tibia or, when the solver raises, the safe default.
calculate_standing_pose(s) ==
    [l \in Legs |->
        [coxa |-> 90 + s.body_yaw,
         src |-> IF Unreachable(l, s, ik) THEN FallbackSrc
                 ELSE StandingSrc(s)]]

\* update_servos, first half: base_angles.
BaseAngles(s) ==
    IF s.running THEN joint_angles_for_time(s) ELSE calculate_standing_pose(s)

\* ground_contacts taken from the swing states without the negation.
GroundContactsSwing(s) ==
    IF s.running
    THEN [l \in Legs |-> Swing(l, s.gait_time, s.gait_mode)]
    ELSE [l \in Legs |-> TRUE]

\* update_servos, first half: ground_contacts.
GroundContacts(s) ==
    IF s.running
    THEN [l \in Legs |-> ~Swing(l, s.gait_time, s.gait_mode)]
    ELSE [l \in Legs |-> TRUE]

\* update_servos, loop body: the triple appended for one leg.  The femur
\* tilt correction is applied only while running.
LegAngles(s, b) ==
    [coxa |-> b.coxa + s.heading + s.body_yaw,
     src |-> b.src,
     tilt |-> IF s.running THEN <<s.body_pitch, s.body_roll>> ELSE <<0, 0>>,
     adjusted |-> s.running]

\* update_servos, loop body: the servo writes attempted for one leg.  The
\* three writes share one try block, so a write that raises skips the
\* leg's later joints.
CallsMade(l, b) ==
    {<<l, j>> : j \in {k \in Joints : \A e \in 0 .. (k - 1) : <<l, e>> \notin b}}

\* ------------------------------------------------------------- gait_loop

\* Values of the iteration's locals outside an iteration.
NoAngles ==
    [l \in Legs |->
        [coxa |-> 0,
         src |-> [walking |-> FALSE, t |-> 0, mode |-> "", turn |-> 0,
                  height |-> 0, pitch |-> 0, roll |-> 0, spread |-> 0,
                  solved |-> TRUE]]]

NoSnap ==
    [running |-> FALSE, gait_mode |-> "", speed |-> 0, heading |-> 0,
     body_height |-> 0, body_pitch |-> 0, body_roll |-> 0, body_yaw |-> 0,
     leg_spread |-> 0, rotation_speed |-> 0, gait_time |-> 0, turn_rate |-> 0]

RECURSIVE NormalizeDown(_)
\* while heading > 180: heading -= 360
NormalizeDown(h) == IF h > 180 THEN NormalizeDown(h - 360) ELSE h

RECURSIVE NormalizeUp(_)
\* while heading < -180: heading += 360
NormalizeUp(h) == IF h < -180 THEN NormalizeUp(h + 360) ELSE h

\* heading after one iteration's rotation step.
HeadingStep(h, rs, dt) ==
    IF rs # 0 THEN NormalizeUp(NormalizeDown(h + rs * dt)) ELSE h

\* A gait step that ignores running and speed > 0.
GaitStepAlways(t, run, spd, dt) == t + dt * spd

\* gait time after one iteration's gait step.
GaitStep(t, run, spd, dt) ==
    IF run /\ spd > 0 THEN t + dt * spd ELSE t

\* A rotation step that integrates only while walking.
gait_loop_heading_walking(dt) ==
    /\ LoopFree
    /\ GaitStep(gait_time, running, speed, dt) <= MaxGaitTime
    /\ tick_dt' = dt
    /\ snap' = State
    /\ heading' = IF running
                  THEN HeadingStep(heading, rotation_speed, dt)
                  ELSE heading
    /\ pc' = "gait"
    /\ UNCHANGED <<running, speed, rotation_speed, gait_mode, posture,
                   ground_contacts, engine, deploy, leg, base, angles,
                   calls, epc, joy_events, gaitcfg, poses, patrol, conf>>

\* The loop wakes, measures dt and integrates rotation into heading.
gait_loop_heading(dt) ==
    /\ LoopFree
    /\ GaitStep(gait_time, running, speed, dt) <= MaxGaitTime
    /\ tick_dt' = dt
    /\ snap' = State
    /\ heading' = HeadingStep(heading, rotation_speed, dt)
    /\ pc' = "gait"
    /\ UNCHANGED <<running, speed, rotation_speed, gait_mode, posture,
                   ground_contacts, engine, deploy, leg, base, angles,
                   calls, epc, joy_events, gaitcfg, poses, patrol, conf>>

\* The loop advances the gait time.
gait_loop_gait ==
    /\ pc = "gait"
    /\ GaitStep(gait_time, running, speed, tick_dt) <= MaxGaitTime
    /\ gait_time' = GaitStep(gait_time, running, speed, tick_dt)
    /\ pc' = "servos"
    /\ UNCHANGED <<robot, ground_contacts, turn_rate, deploy, tick_dt, leg,
                   base, angles, calls, snap, epc, joy_events, gaitcfg,
                   poses, patrol, conf>>

\* update_servos up to the start of its loop over the legs.
update_servos_base ==
    /\ pc = "servos"
    /\ base' = BaseAngles(State)
    /\ ground_contacts' = GroundContacts(State)
    /\ angles' = <<>>
    /\ calls' = {}
    /\ leg' = 0
    /\ pc' = "fan"
    /\ UNCHANGED <<robot, engine, deploy, tick_dt, snap, epc, joy_events,
                   gaitcfg, poses, patrol, conf>>

\* The loop body without its try block: a write that raises leaves
\* update_servos and ends the loop's task.
update_servos_leg_uncaught ==
    /\ pc = "fan"
    /\ calls' = calls \cup CallsMade(leg, bad)
    /\ IF CallsMade(leg, bad) \cap bad # {}
       THEN /\ pc' = "raised"
            /\ UNCHANGED <<angles, leg>>
       ELSE /\ angles' = Append(angles, LegAngles(State, base[leg]))
            /\ leg' = leg + 1
            /\ pc' = IF leg = NumLegs - 1 THEN "telemetry" ELSE "fan"
    /\ UNCHANGED <<robot, ground_contacts, engine, deploy, tick_dt, base,
                   snap, epc, joy_events, gaitcfg, poses, patrol, conf>>

\* One iteration of update_servos' loop over the legs.
update_servos_leg ==
    /\ pc = "fan"
    /\ angles' = Append(angles, LegAngles(State, base[leg]))
    /\ calls' = calls \cup CallsMade(leg, bad)
    /\ leg' = leg + 1
    /\ pc' = IF leg = NumLegs - 1 THEN "telemetry" ELSE "fan"
    /\ UNCHANGED <<robot, ground_contacts, engine, deploy, tick_dt, base,
                   snap, epc, joy_events, gaitcfg, poses, patrol, conf>>

\* update_servos has returned; the loop broadcasts telemetry and sleeps.
\* The iteration's locals go out of scope.
gait_loop_sleep ==
    /\ pc = "telemetry"
    /\ pc' = "sleep"
    /\ tick_dt' = 0
    /\ leg' = 0
    /\ base' = NoAngles
    /\ angles' = <<>>
    /\ calls' = {}
    /\ snap' = NoSnap
    /\ joy_events' = 0
    /\ UNCHANGED <<robot, ground_contacts, engine, deploy, epc, gaitcfg,
                   poses, patrol, conf>>

\* ------------------------------------- handlers on the event loop (motion)

\* WebSocket "move".
ws_move(walking, spd, hd, turn) ==
    /\ LoopFree
    /\ running' = walking
    /\ speed' = Max(0, Min(100, spd))
    /\ heading' = hd
    /\ turn_rate' = Clamp(-100, 100, turn)
    /\ rotation_speed' = (Clamp(-100, 100, turn) * TurnToRotation) \div 100
    /\ UNCHANGED <<gait_mode, posture, ground_contacts, gait_time, deploy,
                   tick, epc, joy_events, gaitcfg, poses, patrol, conf>>

\* POST /api/run, POST /api/stop (run = FALSE) and WebSocket "walk".
run_stop(run) ==
    /\ LoopFree
    /\ running' = run
    /\ UNCHANGED <<speed, heading, rotation_speed, gait_mode, posture,
                   ground_contacts, engine, deploy, tick, epc, joy_events,
                   gaitcfg, poses, patrol, conf>>

\* POST /api/rotation.
set_rotation(s) ==
    /\ LoopFree
    /\ rotation_speed' = Clamp(-180, 180, s)
    /\ UNCHANGED <<running, speed, heading, gait_mode, posture,
                   ground_contacts, engine, deploy, tick, epc, joy_events,
                   gaitcfg, poses, patrol, conf>>

\* WebSocket "test_walk" and "go_to_position".
ws_test_walk ==
    /\ LoopFree
    /\ running' = TRUE
    /\ speed' = 50
    /\ UNCHANGED <<heading, rotation_speed, gait_mode, posture,
                   ground_contacts, engine, deploy, tick, epc, joy_events,
                   gaitcfg, poses, patrol, conf>>

\* An emergency stop that leaves rotation_speed as it is.
emergency_stop_rotating ==
    /\ \/ epc = 0 /\ LoopFree
       \/ epc > 0
    /\ running' = IF epc = 0 THEN FALSE ELSE running
    /\ speed' = IF epc = 1 THEN 0 ELSE speed
    /\ body_pitch' = IF epc = 3 THEN 0 ELSE body_pitch
    /\ body_roll' = IF epc = 4 THEN 0 ELSE body_roll
    /\ body_yaw' = IF epc = 5 THEN 0 ELSE body_yaw
    /\ epc' = IF epc = 5 THEN 0 ELSE epc + 1
    /\ joy_events' = IF epc = 5 THEN 0 ELSE joy_events
    /\ reply' = IF epc = 5
                THEN [ok |-> TRUE, type |-> "emergency_stop", value |-> 0]
                ELSE reply
    /\ UNCHANGED <<heading, rotation_speed, gait_mode, body_height,
                   leg_spread, ground_contacts, engine, deploy, tick,
                   gaitcfg, poses, patrol, stored, conn>>

\* emergency_stop: six assignments, one per step, and the answer "ok" of
\* POST /api/emergency_stop after the last.  The handler is synchronous,
\* so nothing else runs on the event loop until then.
emergency_stop ==
    /\ \/ epc = 0 /\ LoopFree
       \/ epc > 0
    /\ running' = IF epc = 0 THEN FALSE ELSE running
    /\ speed' = IF epc = 1 THEN 0 ELSE speed
    /\ rotation_speed' = IF epc = 2 THEN 0 ELSE rotation_speed
    /\ body_pitch' = IF epc = 3 THEN 0 ELSE body_pitch
    /\ body_roll' = IF epc = 4 THEN 0 ELSE body_roll
    /\ body_yaw' = IF epc = 5 THEN 0 ELSE body_yaw
    /\ epc' = IF epc = 5 THEN 0 ELSE epc + 1
    /\ joy_events' = IF epc = 5 THEN 0 ELSE joy_events
    /\ reply' = IF epc = 5
                THEN [ok |-> TRUE, type |-> "emergency_stop", value |-> 0]
                ELSE reply
    /\ UNCHANGED <<heading, gait_mode, body_height, leg_spread,
                   ground_contacts, engine, deploy, tick, gaitcfg, poses,
                   patrol, stored, conn>>

\* ------------------------------------------- joystick: _handle_motion_cmd

\* cmd.type == "move"
handle_motion_move(x, y) ==
    /\ JoyCanRun
    /\ IF Abs(x) > 10 \/ Abs(y) > 10
       THEN /\ speed' = Min(100, Magnitude(x, y))
            /\ heading' = IF y # 0 THEN Atan2Deg(x, y) ELSE heading
       ELSE UNCHANGED <<speed, heading>>
    /\ joy_events' = JoyCount
    /\ UNCHANGED <<running, rotation_speed, gait_mode, posture,
                   ground_contacts, engine, deploy, tick, epc, gaitcfg,
                   poses, patrol, conf>>

\* cmd.type == "start" (gamepad BTN_START; the keyboard fallback has no key
\* for it)
handle_motion_start ==
    /\ joy_mode = "inputs"
    /\ JoyCanRun
    /\ running' = TRUE
    /\ joy_events' = JoyCount
    /\ UNCHANGED <<speed, heading, rotation_speed, gait_mode, posture,
                   ground_contacts, engine, deploy, tick, epc, gaitcfg,
                   poses, patrol, conf>>

\* cmd.type == "stop" (gamepad BTN_SELECT) or "quit" (keyboard q)
handle_motion_stop ==
    /\ JoyCanRun
    /\ running' = FALSE
    /\ joy_events' = JoyCount
    /\ UNCHANGED <<speed, heading, rotation_speed, gait_mode, posture,
                   ground_contacts, engine, deploy, tick, epc, gaitcfg,
                   poses, patrol, conf>>

\* cmd.type == "gait"
handle_motion_gait(mode) ==
    /\ JoyCanRun
    /\ gait_mode' = IF mode \in enabled THEN mode ELSE gait_mode
    /\ last_gait' = [path |-> "joystick", mode |-> mode,
                     ok |-> mode \in enabled]
    /\ joy_events' = JoyCount
    /\ UNCHANGED <<motion, posture, ground_contacts, engine, deploy, tick,
                   epc, enabled, poses, patrol, conf>>

\* -------------------------------------------------------------- gait mode

\* POST /api/gait: 400 unless the mode is an enabled gait.
set_gait(mode) ==
    /\ LoopFree
    /\ gait_mode' = IF mode \in enabled THEN mode ELSE gait_mode
    /\ last_gait' = [path |-> "rest", mode |-> mode, ok |-> mode \in enabled]
    /\ UNCHANGED <<motion, posture, ground_contacts, engine, deploy, tick,
                   epc, joy_events, enabled, poses, patrol, conf>>

\* A WebSocket set_gait that does not look at the enabled gaits.
ws_set_gait_unchecked(mode) ==
    /\ LoopFree
    /\ gait_mode' = mode
    /\ last_gait' = [path |-> "ws", mode |-> mode, ok |-> TRUE]
    /\ UNCHANGED <<motion, posture, ground_contacts, engine, deploy, tick,
                   epc, joy_events, enabled, poses, patrol, conf>>

\* WebSocket "set_gait": silently ignored unless the mode is an enabled gait.
ws_set_gait(mode) ==
    /\ LoopFree
    /\ gait_mode' = IF mode \in enabled THEN mode ELSE gait_mode
    /\ last_gait' = [path |-> "ws", mode |-> mode, ok |-> mode \in enabled]
    /\ UNCHANGED <<motion, posture, ground_contacts, engine, deploy, tick,
                   epc, joy_events, enabled, poses, patrol, conf>>

\* POST /api/gaits, action "enable": set_gait_enabled writes into the
\* configuration's "gaits", which after a reset is DEFAULTS["gaits"].
manage_gaits_enable(g) ==
    /\ LoopFree
    /\ enabled' = IF g \in GaitIds THEN enabled \cup {g} ELSE enabled
    /\ defaults_enabled' = IF aliased THEN enabled' ELSE defaults_enabled
    /\ UNCHANGED <<robot, ground_contacts, engine, deploy, tick, epc,
                   joy_events, last_gait, poses, patrol, current_profile,
                   leg_geometry, ik, params, cfg_gait, cfg_enabled, aliased,
                   reply, conn>>

\* POST /api/gaits, action "disable": refused for the active gait and for
\* the last enabled gait.
manage_gaits_disable(g) ==
    /\ LoopFree
    /\ enabled' =
          IF g = gait_mode \/ (Cardinality(enabled) <= 1 /\ g \in enabled)
          THEN enabled
          ELSE IF g \in GaitIds THEN enabled \ {g} ELSE enabled
    /\ defaults_enabled' = IF aliased THEN enabled' ELSE defaults_enabled
    /\ UNCHANGED <<robot, ground_contacts, engine, deploy, tick, epc,
                   joy_events, last_gait, poses, patrol, current_profile,
                   leg_geometry, ik, params, cfg_gait, cfg_enabled, aliased,
                   reply, conn>>

\* ---------------------------------------------------------------- patrol

\* The value a body gives settings["speed"]: the body's, or the old one.
BodySpeed(b) == IF b = {} THEN patrol_speed ELSE CHOOSE v \in b : TRUE

\* POST /api/patrol/routes.
save_patrol_route(id) ==
    /\ LoopFree
    /\ routes' = routes \cup {id}
    /\ UNCHANGED <<robot, ground_contacts, engine, deploy, tick, epc,
                   joy_events, gaitcfg, poses, patrol_status, patrol_speed,
                   conf>>

\* POST /api/patrol/start and WebSocket "patrol_start": nothing changes
\* unless the route is saved.
start_patrol(id, b) ==
    /\ LoopFree
    /\ IF id \in routes
       THEN /\ patrol_status' = "running"
            /\ patrol_speed' = BodySpeed(b)
            /\ running' = TRUE
            /\ speed' = BodySpeed(b)
       ELSE UNCHANGED <<patrol_status, patrol_speed, running, speed>>
    /\ UNCHANGED <<heading, rotation_speed, gait_mode, posture,
                   ground_contacts, engine, deploy, tick, epc, joy_events,
                   gaitcfg, poses, routes, conf>>

\* POST /api/patrol/stop and WebSocket "patrol_stop".
stop_patrol ==
    /\ LoopFree
    /\ patrol_status' = "stopped"
    /\ running' = FALSE
    /\ speed' = 0
    /\ UNCHANGED <<heading, rotation_speed, gait_mode, posture,
                   ground_contacts, engine, deploy, tick, epc, joy_events,
                   gaitcfg, poses, patrol_speed, routes, conf>>

\* POST /api/patrol/pause and WebSocket "patrol_pause".
pause_patrol ==
    /\ LoopFree
    /\ IF patrol_status = "running"
       THEN patrol_status' = "paused" /\ running' = FALSE
       ELSE UNCHANGED <<patrol_status, running>>
    /\ UNCHANGED <<speed, heading, rotation_speed, gait_mode, posture,
                   ground_contacts, engine, deploy, tick, epc, joy_events,
                   gaitcfg, poses, patrol_speed, routes, conf>>

\* POST /api/patrol/resume and WebSocket "patrol_resume".
resume_patrol ==
    /\ LoopFree
    /\ IF patrol_status = "paused"
       THEN /\ patrol_status' = "running"
            /\ running' = TRUE
            /\ speed' = patrol_speed
       ELSE UNCHANGED <<patrol_status, running, speed>>
    /\ UNCHANGED <<heading, rotation_speed, gait_mode, posture,
                   ground_contacts, engine, deploy, tick, epc, joy_events,
                   gaitcfg, poses, patrol_speed, routes, conf>>

\* POST /api/patrol/settings.
update_patrol_settings(b) ==
    /\ LoopFree
    /\ patrol_speed' = BodySpeed(b)
    /\ UNCHANGED <<robot, ground_contacts, engine, deploy, tick, epc,
                   joy_events, gaitcfg, poses, patrol_status, routes, conf>>

\* ------------------------------------------------------- posture and poses

\* No request answered yet.
NoReply == [ok |-> TRUE, type |-> "none", value |-> 0]

\* A body-height handler that stores the clamped height and reports the
\* requested one.
set_body_height_echo(h) ==
    /\ LoopFree
    /\ body_height' = Max(30, Min(200, h))
    /\ reply' = [ok |-> TRUE, type |-> "body_height", value |-> h]
    /\ UNCHANGED <<motion, gait_mode, body_pitch, body_roll, body_yaw,
                   leg_spread, ground_contacts, engine, deploy, tick, epc,
                   joy_events, gaitcfg, poses, patrol, stored, conn>>

\* POST /api/body_height: the height is clamped and stored, and the
\* stored value is returned as "body_height".
set_body_height(h) ==
    /\ LoopFree
    /\ body_height' = Max(30, Min(200, h))
    /\ reply' = [ok |-> TRUE, type |-> "body_height",
                 value |-> Max(30, Min(200, h))]
    /\ UNCHANGED <<motion, gait_mode, body_pitch, body_roll, body_yaw,
                   leg_spread, ground_contacts, engine, deploy, tick, epc,
                   joy_events, gaitcfg, poses, patrol, stored, conn>>

\* POST /api/leg_spread and WebSocket "leg_spread".
set_leg_spread(s) ==
    /\ LoopFree
    /\ leg_spread' = Max(50, Min(150, s))
    /\ UNCHANGED <<motion, gait_mode, body_height, body_pitch, body_roll,
                   body_yaw, ground_contacts, engine, deploy, tick, epc,
                   joy_events, gaitcfg, poses, patrol, conf>>

\* The order in which set_body_pose and set_gait_params convert the values
\* of a body.
PoseKeys == <<"pitch", "roll", "yaw">>

ParamKeys == <<"step_height", "step_length", "cycle_time">>

\* The place of key k in that order.
KeyPos(keys, k) == CHOOSE i \in DOMAIN keys : keys[i] = k

\* The handler stores key k of body b: the body has a number for it, and
\* no key converted before it made float() raise.
Stored(b, keys, k) ==
    /\ k \in DOMAIN b
    /\ "invalid" \in DOMAIN b => KeyPos(keys, k) < KeyPos(keys, b.invalid)

\* A body-pose handler that builds the whole pose from the body: an angle
\* the body omits goes back to 0.
set_body_pose_whole(b) ==
    /\ LoopFree
    /\ body_pitch' = Max(-30, Min(30, Get(b, "pitch", 0)))
    /\ body_roll' = Max(-30, Min(30, Get(b, "roll", 0)))
    /\ body_yaw' = Max(-45, Min(45, Get(b, "yaw", 0)))
    /\ UNCHANGED <<motion, gait_mode, body_height, leg_spread,
                   ground_contacts, engine, deploy, tick, epc, joy_events,
                   gaitcfg, poses, patrol, conf>>

\* POST /api/body_pose and WebSocket "body_pose": pitch, roll and yaw are
\* converted in that order, and each is clamped and stored before the
\* next is converted; a value float() rejects ends the handler with 400.
set_body_pose(b) ==
    /\ LoopFree
    /\ body_pitch' = IF Stored(b, PoseKeys, "pitch")
                     THEN Max(-30, Min(30, b.pitch)) ELSE body_pitch
    /\ body_roll' = IF Stored(b, PoseKeys, "roll")
                    THEN Max(-30, Min(30, b.roll)) ELSE body_roll
    /\ body_yaw' = IF Stored(b, PoseKeys, "yaw")
                   THEN Max(-45, Min(45, b.yaw)) ELSE body_yaw
    /\ UNCHANGED <<motion, gait_mode, body_height, leg_spread,
                   ground_contacts, engine, deploy, tick, epc, joy_events,
                   gaitcfg, poses, patrol, conf>>

\* WebSocket "pose": a preset; an unknown preset only stops walking.
ws_pose(preset) ==
    /\ LoopFree
    /\ running' = FALSE
    /\ IF preset \in {"stand", "crouch", "neutral"}
       THEN /\ body_height' = CASE preset = "stand" -> 90
                                [] preset = "crouch" -> 50
                                [] OTHER -> 70
            /\ body_pitch' = 0
            /\ body_roll' = 0
            /\ body_yaw' = 0
            /\ leg_spread' = IF preset = "crouch" THEN 130 ELSE 110
       ELSE UNCHANGED posture
    /\ UNCHANGED <<speed, heading, rotation_speed, gait_mode,
                   ground_contacts, engine, deploy, tick, epc, joy_events,
                   gaitcfg, poses, patrol, conf>>

\* The clamp manage_poses applies to one value of a create or update body.
ClampField(k, v) ==
    CASE k = "height" -> Max(30, Min(200, v))
      [] k \in {"roll", "pitch"} -> Max(-30, Min(30, v))
      [] k = "yaw" -> Max(-45, Min(45, v))
      [] OTHER -> Max(50, Min(150, v))

\* HexapodConfig.create_pose: refused when the id exists.
create_pose(id, b) ==
    IF id \in DOMAIN poses
    THEN poses
    ELSE (id :> [height |-> b.height, roll |-> b.roll, pitch |-> b.pitch,
                 yaw |-> b.yaw, leg_spread |-> b.leg_spread,
                 builtin |-> FALSE]) @@ poses

\* POST /api/poses, action "create": the values are clamped, then stored.
manage_poses_create(id, b) ==
    /\ LoopFree
    /\ poses' = create_pose(id, [k \in DOMAIN b |-> ClampField(k, b[k])])
    /\ UNCHANGED <<robot, ground_contacts, engine, deploy, tick, epc,
                   joy_events, gaitcfg, patrol, conf>>

\* POST /api/poses, action "update": the values given are clamped, then
\* stored over the pose's old ones.
manage_poses_update(id, b) ==
    /\ LoopFree
    /\ poses' = IF id \in DOMAIN poses
                THEN [poses EXCEPT ![id] =
                        [k \in DOMAIN b |-> ClampField(k, b[k])] @@ poses[id]]
                ELSE poses
    /\ UNCHANGED <<robot, ground_contacts, engine, deploy, tick, epc,
                   joy_events, gaitcfg, patrol, conf>>

\* POST /api/poses, action "delete": refused for the last pose and for a
\* builtin pose.
manage_poses_delete(id) ==
    /\ LoopFree
    /\ poses' = IF /\ Cardinality(DOMAIN poses) > 1
                   /\ id \in DOMAIN poses
                   /\ ~Get(poses[id], "builtin", FALSE)
                THEN [p \in DOMAIN poses \ {id} |-> poses[p]]
                ELSE poses
    /\ UNCHANGED <<robot, ground_contacts, engine, deploy, tick, epc,
                   joy_events, gaitcfg, patrol, conf>>

\* The stored pose a request names is there and not empty.
PoseFound(id) == id \in DOMAIN poses /\ DOMAIN poses[id] # {}

\* POST /api/poses, action "apply": the stored values are copied as they
\* are.
manage_poses_apply(id) ==
    /\ LoopFree
    /\ IF PoseFound(id)
       THEN /\ running' = FALSE
            /\ body_height' = Get(poses[id], "height", 120)
            /\ body_roll' = Get(poses[id], "roll", 0)
            /\ body_pitch' = Get(poses[id], "pitch", 0)
            /\ body_yaw' = Get(poses[id], "yaw", 0)
            /\ leg_spread' = Get(poses[id], "leg_spread", 100)
       ELSE UNCHANGED <<running, posture>>
    /\ UNCHANGED <<speed, heading, rotation_speed, gait_mode,
                   ground_contacts, engine, deploy, tick, epc, joy_events,
                   gaitcfg, poses, patrol, conf>>

\* WebSocket "apply_pose": as the REST apply, with other defaults.
ws_apply_pose(id) ==
    /\ LoopFree
    /\ IF PoseFound(id)
       THEN /\ running' = FALSE
            /\ body_height' = Get(poses[id], "height", 90)
            /\ body_roll' = Get(poses[id], "roll", 0)
            /\ body_pitch' = Get(poses[id], "pitch", 0)
            /\ body_yaw' = Get(poses[id], "yaw", 0)
            /\ leg_spread' = Get(poses[id], "leg_spread", 110)
       ELSE UNCHANGED <<running, posture>>
    /\ UNCHANGED <<speed, heading, rotation_speed, gait_mode,
                   ground_contacts, engine, deploy, tick, epc, joy_events,
                   gaitcfg, poses, patrol, conf>>

\* POST /api/config with a "poses" key: HexapodConfig.update stores the
\* body's value as the pose table, unvalidated.
update_config_poses(b) ==
    /\ LoopFree
    /\ poses' = b
    /\ UNCHANGED <<robot, ground_contacts, engine, deploy, tick, epc,
                   joy_events, gaitcfg, patrol, conf>>

\* ------------------------------------------------------- specifications

\* ------------------------------ handlers on the event loop (configuration)

\* DEFAULTS: leg_coxa_length, leg_femur_length, leg_tibia_length (mm).
DefaultLegGeometry == <<15, 50, 55>>

\* get_leg_geometry: the three lengths of the current configuration.
get_leg_geometry == leg_geometry[current_profile]

\* cfg.update(body) on the three lengths.
UpdatedGeometry(g, b) ==
    <<Get(b, "leg_coxa_length", g[1]), Get(b, "leg_femur_length", g[2]),
      Get(b, "leg_tibia_length", g[3])>>

\* DEFAULTS: step_height, step_length, cycle_time.
DefaultGaitParams ==
    [step_height |-> StepHeight, step_length |-> StepLength,
     cycle_time |-> CycleTime]

\* cfg.update(body) on the three gait parameters.
UpdatedGaitParams(g, b) ==
    [k \in DOMAIN g |-> Get(b, k, g[k])]

\* load_gait_params_from_config had the configuration class a
\* get_gait_params method: the stored values of the profile, as they are.
load_gait_params_from_config_stored(name) == cfg_gait[name]

\* _load_gait_params_from_config with the named profile current:
\* HexapodConfig of config.py has no get_gait_params, the AttributeError
\* is caught and the three fixed values are returned.
load_gait_params_from_config(name) ==
    [step_height |-> 25, step_length |-> 40, cycle_time |-> 120]

\* POST /api/gait/params: step_height, step_length and cycle_time are
\* converted in that order, and each is clamped and stored in the engine
\* before the next is converted; a value float() rejects ends the handler
\* with 400.
set_gait_params(b) ==
    /\ LoopFree
    /\ step_height' = IF Stored(b, ParamKeys, "step_height")
                      THEN Max(10, Min(50, b.step_height)) ELSE step_height
    /\ step_length' = IF Stored(b, ParamKeys, "step_length")
                      THEN Max(10, Min(80, b.step_length)) ELSE step_length
    /\ cycle_time' = IF Stored(b, ParamKeys, "cycle_time")
                     THEN Max(50, Min(300, b.cycle_time)) ELSE cycle_time
    /\ UNCHANGED <<robot, ground_contacts, engine, deploy, tick, epc,
                   joy_events, gaitcfg, poses, patrol, current_profile,
                   leg_geometry, ik, cfg_gait, gaitstore, reply, conn>>

\* POST /api/config: the body is merged into the current profile's
\* configuration and saved; the IK solver is rebuilt when a key of the
\* body names a leg length.
update_config_endpoint(b) ==
    /\ LoopFree
    /\ leg_geometry' =
          [leg_geometry EXCEPT ![current_profile] = UpdatedGeometry(@, b)]
    /\ ik' = IF DOMAIN b \cap LegLengthKeys # {}
             THEN UpdatedGeometry(leg_geometry[current_profile], b)
             ELSE ik
    /\ cfg_gait' =
          [cfg_gait EXCEPT ![current_profile] = UpdatedGaitParams(@, b)]
    /\ enabled' = Get(b, "gaits", enabled)
    /\ aliased' = IF "gaits" \in DOMAIN b THEN FALSE ELSE aliased
    /\ UNCHANGED <<robot, ground_contacts, engine, deploy, tick, epc,
                   joy_events, last_gait, poses, patrol, current_profile,
                   params, cfg_enabled, defaults_enabled, reply, conn>>

\* POST /api/config/reset: the current profile's configuration becomes a
\* shallow copy of DEFAULTS, whose "gaits" it then shares, and is saved.
reset_config_endpoint ==
    /\ LoopFree
    /\ leg_geometry' =
          [leg_geometry EXCEPT ![current_profile] = DefaultLegGeometry]
    /\ cfg_gait' = [cfg_gait EXCEPT ![current_profile] = DefaultGaitParams]
    /\ enabled' = defaults_enabled
    /\ aliased' = TRUE
    /\ UNCHANGED <<robot, ground_contacts, engine, deploy, tick, epc,
                   joy_events, last_gait, poses, patrol, current_profile, ik,
                   params, cfg_enabled, defaults_enabled, reply, conn>>

\* POST /api/profiles "switch": the named profile's configuration is
\* loaded from its file and becomes the current one, its gaits replacing
\* those of the profile left, and refresh_gait_params_from_config copies
\* the loaded gait parameters into the engine.
manage_profiles_switch(name) ==
    /\ LoopFree
    /\ name \in Profiles
    /\ current_profile' = name
    /\ step_height' = load_gait_params_from_config(name).step_height
    /\ step_length' = load_gait_params_from_config(name).step_length
    /\ cycle_time' = load_gait_params_from_config(name).cycle_time
    /\ cfg_enabled' = [cfg_enabled EXCEPT ![current_profile] = enabled]
    /\ enabled' = cfg_enabled'[name]
    /\ aliased' = FALSE
    /\ UNCHANGED <<robot, ground_contacts, engine, deploy, tick, epc,
                   joy_events, last_gait, poses, patrol, leg_geometry, ik,
                   cfg_gait, defaults_enabled, reply, conn>>

\* ------------------------------------------------------ ConnectionManager

\* The number of entries of list a that are socket w.
Count(a, w) == Cardinality({i \in DOMAIN a : a[i] = w})

\* list.remove(w): the list without its first entry w.
Remove(a, w) ==
    LET first == CHOOSE i \in DOMAIN a :
                     a[i] = w /\ \A j \in 1 .. (i - 1) : a[j] # w
    IN  [k \in 1 .. (Len(a) - 1) |-> IF k < first THEN a[k] ELSE a[k + 1]]

\* The connect calls now suspended in accept().
Accepting == accepting["w1"] + accepting["w2"] + accepting["w3"]

\* connect up to its await: a socket already in active is ignored,
\* otherwise the call suspends in websocket.accept().
connect_check(w) ==
    /\ Accepting < MaxAccepting
    /\ accepting' = IF Count(active, w) > 0 THEN accepting
                    ELSE [accepting EXCEPT ![w] = @ + 1]
    /\ UNCHANGED <<robot, ground_contacts, engine, deploy, tick, epc,
                   joy_events, gaitcfg, poses, patrol, stored, reply,
                   active, failing, bc_copy, bc_i, received>>

\* connect after its await: accept() returned and the socket is appended.
connect_append(w) ==
    /\ accepting[w] > 0
    /\ Len(active) < MaxActive
    /\ accepting' = [accepting EXCEPT ![w] = @ - 1]
    /\ active' = Append(active, w)
    /\ UNCHANGED <<robot, ground_contacts, engine, deploy, tick, epc,
                   joy_events, gaitcfg, poses, patrol, stored, reply,
                   failing, bc_copy, bc_i, received>>

\* connect after its await: accept() raised and connect is left.
connect_raise(w) ==
    /\ accepting[w] > 0
    /\ accepting' = [accepting EXCEPT ![w] = @ - 1]
    /\ UNCHANGED <<robot, ground_contacts, engine, deploy, tick, epc,
                   joy_events, gaitcfg, poses, patrol, stored, reply,
                   active, failing, bc_copy, bc_i, received>>

\* disconnect: the first entry for the socket is removed, if there is one.
disconnect(w) ==
    /\ active' = IF Count(active, w) > 0 THEN Remove(active, w) ELSE active
    /\ UNCHANGED <<robot, ground_contacts, engine, deploy, tick, epc,
                   joy_events, gaitcfg, poses, patrol, stored, reply,
                   accepting, failing, bc_copy, bc_i, received>>

\* The peer of a socket goes away: its send_json raises from now on.
socket_breaks(w) ==
    /\ w \notin failing
    /\ failing' = failing \cup {w}
    /\ UNCHANGED <<robot, ground_contacts, engine, deploy, tick, epc,
                   joy_events, gaitcfg, poses, patrol, stored, reply,
                   active, accepting, bc_copy, bc_i, received>>

\* broadcast is called: list(self.active).
broadcast_begin ==
    /\ bc_i = 0
    /\ bc_copy' = active
    /\ bc_i' = 1
    /\ UNCHANGED <<robot, ground_contacts, engine, deploy, tick, epc,
                   joy_events, gaitcfg, poses, patrol, stored, reply,
                   active, accepting, failing, received>>

\* A broadcast whose first failing send ends the iteration.
broadcast_send_stop ==
    /\ bc_i \in 1 .. Len(bc_copy)
    /\ IF bc_copy[bc_i] \in failing
       THEN /\ active' = IF Count(active, bc_copy[bc_i]) > 0
                         THEN Remove(active, bc_copy[bc_i]) ELSE active
            /\ bc_i' = Len(bc_copy) + 1
            /\ UNCHANGED received
       ELSE /\ received' = [received EXCEPT ![bc_copy[bc_i]] = @ + 1]
            /\ bc_i' = bc_i + 1
            /\ UNCHANGED active
    /\ UNCHANGED <<robot, ground_contacts, engine, deploy, tick, epc,
                   joy_events, gaitcfg, poses, patrol, stored, reply,
                   accepting, failing, bc_copy>>

\* One iteration of broadcast's loop: send_json to the next socket of the
\* copy; a send that raises disconnects the socket.
broadcast_send ==
    /\ bc_i \in 1 .. Len(bc_copy)
    /\ IF bc_copy[bc_i] \in failing
       THEN /\ active' = IF Count(active, bc_copy[bc_i]) > 0
                         THEN Remove(active, bc_copy[bc_i]) ELSE active
            /\ UNCHANGED received
       ELSE /\ received' = [received EXCEPT ![bc_copy[bc_i]] = @ + 1]
            /\ UNCHANGED active
    /\ bc_i' = bc_i + 1
    /\ UNCHANGED <<robot, ground_contacts, engine, deploy, tick, epc,
                   joy_events, gaitcfg, poses, patrol, stored, reply,
                   accepting, failing, bc_copy>>

\* broadcast returns: its copy of the list and the message go away.
broadcast_return ==
    /\ bc_i = Len(bc_copy) + 1
    /\ bc_i' = 0
    /\ bc_copy' = <<>>
    /\ received' = [w \in Sockets |-> 0]
    /\ UNCHANGED <<robot, ground_contacts, engine, deploy, tick, epc,
                   joy_events, gaitcfg, poses, patrol, stored, reply,
                   active, accepting, failing>>

\* HexapodController.__init__, GaitEngine.__init__, the default
\* configuration and the initial patrol state; the loop has not yet run its
\* first iteration.
InitController ==
    /\ running = FALSE
    /\ gait_mode = "tripod"
    /\ speed = 100
    /\ heading = 0
    /\ body_height = 60
    /\ body_pitch = 0
    /\ body_roll = 0
    /\ body_yaw = 0
    /\ leg_spread = 100
    /\ rotation_speed = 0
    /\ ground_contacts = [l \in Legs |-> TRUE]
    /\ gait_time = 0
    /\ turn_rate = 0
    /\ pc = "sleep"
    /\ tick_dt = 0
    /\ leg = 0
    /\ base = NoAngles
    /\ angles = <<>>
    /\ calls = {}
    /\ snap = NoSnap
    /\ epc = 0
    /\ joy_events = 0
    /\ enabled = GaitIds
    /\ poses = DefaultPoses
    /\ last_gait = [path |-> "none", mode |-> "", ok |-> TRUE]
    /\ patrol_status = "stopped"
    /\ patrol_speed = 50
    /\ routes = {}
    /\ current_profile = "default"
    /\ leg_geometry = [p \in Profiles |-> DefaultLegGeometry]
    /\ ik = DefaultLegGeometry
    /\ step_height = StepHeight
    /\ step_length = StepLength
    /\ cycle_time = CycleTime
    /\ cfg_gait = [p \in Profiles |-> DefaultGaitParams]
    /\ cfg_enabled = [p \in Profiles |-> GaitIds]
    /\ defaults_enabled = GaitIds
    /\ aliased = FALSE
    /\ reply = NoReply
    /\ active = <<>>
    /\ accepting = [w \in Sockets |-> 0]
    /\ failing = {}
    /\ bc_copy = <<>>
    /\ bc_i = 0
    /\ received = [w \in Sockets |-> 0]

\* The steps of one iteration of the control loop.
Tick ==
    \/ \E dt \in DtValues : gait_loop_heading(dt)
    \/ gait_loop_gait
    \/ update_servos_base
    \/ update_servos_leg
    \/ gait_loop_sleep

\* The control loop with the motion commands of the event loop; the
\* joystick is the keyboard fallback, whose callbacks run on the event loop.
Init ==
    /\ InitController
    /\ joy_mode = "keyboard"
    /\ bad = {}

Next ==
    \/ Tick
    \/ \E w \in BOOLEAN, spd \in MoveSpeedInputs, hd \in MoveHeadingInputs,
          turn \in MoveTurnInputs : ws_move(w, spd, hd, turn)
    \/ \E r \in BOOLEAN : run_stop(r)
    \/ \E s \in RotationInputs : set_rotation(s)
    \/ emergency_stop
    \/ \E xy \in KeyInputs : handle_motion_move(xy[1], xy[2])
    \/ handle_motion_stop

Spec == Init /\ [][Next]_vars

\* The server started with --controller and the inputs library installed:
\* the gamepad loop and its callbacks run on the executor thread.
InitThread ==
    /\ InitController
    /\ joy_mode = "inputs"
    /\ bad = {}

NextThread ==
    \/ Tick
    \/ emergency_stop
    \/ \E xy \in PadInputs : handle_motion_move(xy[1], xy[2])
    \/ handle_motion_start
    \/ handle_motion_stop

SpecThread == InitThread /\ [][NextThread]_vars

\* A servo sink some of whose writes raise.
InitFan ==
    /\ InitController
    /\ joy_mode = "none"
    /\ bad \in BadSets

NextFan ==
    \/ Tick
    \/ \E r \in BOOLEAN : run_stop(r)

SpecFan == InitFan /\ [][NextFan]_vars

\* The commands that write speed.
InitSpeed ==
    /\ InitController
    /\ joy_mode = "keyboard"
    /\ bad = {}

NextSpeed ==
    \/ \E w \in BOOLEAN, spd \in MoveSpeedInputs : ws_move(w, spd, 0, 0)
    \/ \E xy \in KeyInputs : handle_motion_move(xy[1], xy[2])
    \/ \E id \in RouteIds : save_patrol_route(id)
    \/ \E id \in RouteIds, b \in PatrolSpeedBodies : start_patrol(id, b)
    \/ stop_patrol
    \/ pause_patrol
    \/ resume_patrol
    \/ \E b \in PatrolSpeedBodies : update_patrol_settings(b)
    \/ ws_test_walk
    \/ emergency_stop

SpecSpeed == InitSpeed /\ [][NextSpeed]_vars

\* The commands that read or write the gait mode and the enabled gaits.
InitGait ==
    /\ InitController
    /\ joy_mode = "keyboard"
    /\ bad = {}

NextGait ==
    \/ \E m \in GaitRequests : set_gait(m)
    \/ \E m \in GaitRequests : ws_set_gait(m)
    \/ \E m \in JoyGaits : handle_motion_gait(m)
    \/ \E g \in GaitToggles : manage_gaits_enable(g)
    \/ \E g \in GaitToggles : manage_gaits_disable(g)
    \/ \E r \in BOOLEAN : run_stop(r)

SpecGait == InitGait /\ [][NextGait]_vars

\* The commands that write the posture and the stored poses.  (The "record"
\* action of POST /api/poses stores the controller's current posture under
\* a new id; it brings no value into the pose table that the posture does
\* not already hold, and is left out.)
InitPose ==
    /\ InitController
    /\ joy_mode = "none"
    /\ bad = {}

NextPose ==
    \/ \E h \in HeightInputs : set_body_height(h)
    \/ \E s \in SpreadInputs : set_leg_spread(s)
    \/ \E b \in BodyPoseBodies : set_body_pose(b)
    \/ \E p \in Presets : ws_pose(p)
    \/ \E id \in PoseTargets, b \in PoseBodies : manage_poses_create(id, b)
    \/ \E id \in PoseTargets, b \in PoseUpdateBodies :
          manage_poses_update(id, b)
    \/ \E id \in PoseTargets : manage_poses_delete(id)
    \/ \E id \in PoseTargets : manage_poses_apply(id)
    \/ \E id \in PoseTargets : ws_apply_pose(id)
    \/ \E b \in ConfigPoseBodies : update_config_poses(b)

SpecPose == InitPose /\ [][NextPose]_vars

\* The configuration endpoints and the profile switch, with the loop.
InitGeometry ==
    /\ InitController
    /\ joy_mode = "none"
    /\ bad = {}

NextGeometry ==
    \/ Tick
    \/ \E b \in ConfigBodies : update_config_endpoint(b)
    \/ reset_config_endpoint
    \/ \E n \in Profiles : manage_profiles_switch(n)

SpecGeometry == InitGeometry /\ [][NextGeometry]_vars

\* The posture commands with the loop, the robot standing.
InitStand ==
    /\ InitController
    /\ joy_mode = "none"
    /\ bad = {}

NextStand ==
    \/ Tick
    \/ \E h \in HeightInputs : set_body_height(h)
    \/ \E sp \in SpreadInputs : set_leg_spread(sp)
    \/ \E b \in BodyPoseBodies : set_body_pose(b)
    \/ \E p \in Presets : ws_pose(p)

SpecStand == InitStand /\ [][NextStand]_vars

\* The gait engine under the loop: walking, the gait and its parameters.
InitEngine ==
    /\ InitController
    /\ joy_mode = "none"
    /\ bad = {}

NextEngine ==
    \/ Tick
    \/ \E r \in BOOLEAN : run_stop(r)
    \/ \E m \in GaitRequests : set_gait(m)
    \/ \E b \in GaitParamBodies : set_gait_params(b)

SpecEngine == InitEngine /\ [][NextEngine]_vars

\* The gait engine used on its own, as its tests and its module's main
\* block use it.
InitDirect ==
    /\ InitController
    /\ joy_mode = "none"
    /\ bad = {}

NextDirect ==
    \/ \E dt \in EngineDts : engine_update(dt)
    \/ \E m \in EngineModes : engine_joint_angles_for_time(m)
    \/ \E t \in IKTargets : ik_solve(t)

SpecDirect == InitDirect /\ [][NextDirect]_vars

\* The commands that write the gait parameters and the turn rate, with
\* the configuration they may be refreshed from.
InitParams ==
    /\ InitController
    /\ joy_mode = "none"
    /\ bad = {}

NextParams ==
    \/ \E b \in GaitParamBodies : set_gait_params(b)
    \/ \E b \in ConfigBodies : update_config_endpoint(b)
    \/ reset_config_endpoint
    \/ \E n \in Profiles : manage_profiles_switch(n)
    \/ \E turn \in MoveTurnInputs : ws_move(FALSE, 50, 0, turn)

SpecParams == InitParams /\ [][NextParams]_vars

\* The commands that write the gait mode or the enabled gaits of the loaded
\* configuration.
InitGaitCfg ==
    /\ InitController
    /\ joy_mode = "none"
    /\ bad = {}

NextGaitCfg ==
    \/ \E m \in GaitRequests : set_gait(m)
    \/ \E g \in GaitToggles : manage_gaits_enable(g)
    \/ \E g \in GaitToggles : manage_gaits_disable(g)
    \/ \E b \in GaitsBodies : update_config_endpoint(b)
    \/ reset_config_endpoint
    \/ \E name \in Profiles : manage_profiles_switch(name)

SpecGaitCfg == InitGaitCfg /\ [][NextGaitCfg]_vars

\* The commands that can be answered with an error, with bodies that are
\* accepted and bodies that are not.
InitReject ==
    /\ InitController
    /\ joy_mode = "none"
    /\ bad = {}

NextReject ==
    \/ \E b \in BodyPoseBodies : set_body_pose(b)
    \/ \E b \in InvalidPoseBodies : set_body_pose(b)
    \/ \E b \in GaitParamBodies : set_gait_params(b)
    \/ \E b \in InvalidParamBodies : set_gait_params(b)
    \/ \E m \in GaitRequests : set_gait(m)
    \/ \E id \in PoseTargets : manage_poses_apply(id)
    \/ \E r \in BOOLEAN : run_stop(r)

SpecReject == InitReject /\ [][NextReject]_vars

\* The control loop and the commands, none of which arrives once an
\* emergency stop has been answered.
InitHalt ==
    /\ InitController
    /\ joy_mode = "none"
    /\ bad = {}

Halted == reply.type = "emergency_stop"

NextHalt ==
    \/ Tick
    \/ emergency_stop
    \/ /\ ~Halted
       /\ \/ \E w \in BOOLEAN, spd \in MoveSpeedInputs,
                hd \in MoveHeadingInputs, turn \in MoveTurnInputs :
                    ws_move(w, spd, hd, turn)
          \/ \E r \in BOOLEAN : run_stop(r)
          \/ \E s \in RotationInputs : set_rotation(s)
          \/ \E b \in BodyPoseBodies : set_body_pose(b)

SpecHalt == InitHalt /\ [][NextHalt]_vars

\* The patrol commands with the other commands that write the running
\* flag.
InitPatrol ==
    /\ InitController
    /\ joy_mode = "none"
    /\ bad = {}

NextPatrol ==
    \/ \E id \in RouteIds : save_patrol_route(id)
    \/ \E id \in RouteIds, b \in PatrolSpeedBodies : start_patrol(id, b)
    \/ stop_patrol
    \/ pause_patrol
    \/ resume_patrol
    \/ \E r \in BOOLEAN : run_stop(r)
    \/ \E id \in PoseTargets : manage_poses_apply(id)
    \/ emergency_stop

SpecPatrol == InitPatrol /\ [][NextPatrol]_vars

\* The connection manager under connects, disconnects, broken sockets and
\* broadcasts.
InitConn ==
    /\ InitController
    /\ joy_mode = "none"
    /\ bad = {}

NextConn ==
    \/ \E w \in Sockets : connect_check(w)
    \/ \E w \in Sockets : connect_append(w)
    \/ \E w \in Sockets : connect_raise(w)
    \/ \E w \in Sockets : disconnect(w)
    \/ \E w \in Sockets : socket_breaks(w)
    \/ broadcast_begin
    \/ broadcast_send
    \/ broadcast_return

SpecConn == InitConn /\ [][NextConn]_vars

\* ---------------------------------------------------------------- claims

\* C1: when a tick's fan-out has finished, the servo sink has been called
\* for each of the 18 (leg, joint) pairs, whichever calls raised.
FanOutComplete == pc = "telemetry" => calls = AllPairs

\* C2: after every tick (update_servos has returned) heading lies in
\* (-180, 180], whatever commands came before the tick.
HeadingNormalized == pc = "telemetry" => (heading > -180 /\ heading <= 180)

\* C3: emergency stop is one atomic step: while it has reset only some of
\* its six fields, no other handler writes a controller field.
EStopAtomic == [][(epc > 0 /\ epc' = epc) => (UNCHANGED robot)]_vars

\* C4: between the start of a tick's heading and gait-time update and the
\* tick's last servo call no command handler changes a controller field.
TickIsolated ==
    [][(pc \in {"gait", "servos", "fan"}) => (UNCHANGED robot)]_vars

\* C5: speed stays within [0, 1] (0 to 100 hundredths) after every sequence
\* of commands.
SpeedInRange == speed >= 0 /\ speed <= 100

\* C6: body_height stays in [30, 200], body_pitch and body_roll in
\* [-30, 30], body_yaw in [-45, 45] and leg_spread in [50, 150] after every
\* sequence of commands, stored poses included.
PostureInRange ==
    /\ body_height >= 30 /\ body_height <= 200
    /\ body_pitch >= -30 /\ body_pitch <= 30
    /\ body_roll >= -30 /\ body_roll <= 30
    /\ body_yaw >= -45 /\ body_yaw <= 45
    /\ leg_spread >= 50 /\ leg_spread <= 150

\* C7: a set-gait request (REST, WebSocket or joystick) naming a gait that
\* is not enabled is not applied and leaves gait_mode as it was.
GaitRejected ==
    [][/\ \A m \in GaitRequests :
            (m \notin enabled /\ (set_gait(m) \/ ws_set_gait(m)))
                => (gait_mode' = gait_mode /\ ~last_gait'.ok)
       /\ \A m \in JoyGaits :
            (m \notin enabled /\ handle_motion_gait(m))
                => (gait_mode' = gait_mode /\ ~last_gait'.ok)]_vars

\* C7 happens: the joystick named a disabled gait, was refused, and the
\* gait mode is another one.
GaitRejectedSeen ==
    /\ last_gait.path = "joystick"
    /\ ~last_gait.ok
    /\ last_gait.mode \in GaitIds \ enabled
    /\ gait_mode # last_gait.mode

\* C8: gait_time changes only in a tick's gait step and only if running is
\* true and speed > 0; in a tick where running is false or speed is 0 it
\* stays as it was.
GaitTimeGated ==
    [][gait_time' # gait_time => (pc = "gait" /\ running /\ speed > 0)]_vars

\* C8 happens: a tick that measured dt > 0 while the robot was not walking
\* has passed its gait step with gait_time as it was before the tick.
GaitTimeHeld ==
    /\ pc = "servos"
    /\ tick_dt > 0
    /\ ~running \/ speed = 0
    /\ gait_time = snap.gait_time

\* C9: every tick advances heading by rotation_speed times the tick's dt
\* (as an angle, modulo 360), whether running is true or false.
RotationIntegrates ==
    [][(pc = "sleep" /\ pc' = "gait")
          => (heading' - (heading + rotation_speed * tick_dt')) % 360 = 0]_vars

\* C9 happens: a tick has changed heading while the robot was standing.
RotatedWhileStanding ==
    /\ pc = "gait"
    /\ ~running
    /\ rotation_speed # 0
    /\ tick_dt > 0
    /\ heading # snap.heading

\* The state a tick works on: what the commands completed before the tick
\* left, after the tick's own heading and gait-time update.
TickState ==
    [snap EXCEPT
        !.heading = HeadingStep(snap.heading, snap.rotation_speed, tick_dt),
        !.gait_time = GaitStep(snap.gait_time, snap.running, snap.speed,
                               tick_dt)]

\* C10: the angles of a tick are computed from the values written by the
\* most recent commands that completed before the tick.
AnglesFromTickState ==
    pc = "telemetry" =>
        angles = [i \in 1 .. NumLegs |->
                    LegAngles(TickState, BaseAngles(TickState)[i - 1])]

\* C11: whenever the configured leg lengths change (configuration update,
\* reset to defaults, profile switch) the IK solver is rebuilt, so when an
\* iteration computes its angles the solver's lengths are those of the
\* current configuration.
IKMatchesConfig == (pc = "servos") => (ik = get_leg_geometry)

\* C12: a servo write that raises never aborts a tick: whatever the set of
\* failing (leg, joint) writes, every iteration of update_servos' loop
\* appends its triple and goes on to the next leg, update_servos returns
\* six triples, and the loop goes on to its sleep.
ServoFailureContained ==
    /\ []((pc = "telemetry") => (Len(angles) = NumLegs))
    /\ [][(pc = "fan") => (/\ Len(angles') = Len(angles) + 1
                           /\ pc' \in {"fan", "telemetry"})]_vars
    /\ [][(pc = "telemetry") => (pc' = "sleep")]_vars

\* A tick in which a write raised has returned its six triples.
ServoFailureSeen ==
    /\ pc = "telemetry"
    /\ calls \cap bad # {}
    /\ Len(angles) = NumLegs

\* C13: in the standing pose a leg whose IK target is out of reach gets the
\* fallback (90 + yaw, 70, 90), and every other leg gets exactly the angles
\* it gets when no leg is out of reach.
StandingFallbackPerLeg ==
    (pc = "fan" /\ ~running) =>
        \A l \in Legs :
            /\ base[l].coxa = 90 + body_yaw
            /\ base[l].src = IF Unreachable(l, State, ik) THEN FallbackSrc
                              ELSE StandingSrc(State)

\* A standing tick in which some legs are out of reach and some are not.
StandingFallbackSeen ==
    /\ pc = "fan"
    /\ ~running
    /\ \E l \in Legs : Unreachable(l, State, ik) /\ base[l].src = FallbackSrc
    /\ \E l \in Legs : ~Unreachable(l, State, ik) /\ base[l].src.solved

\* C14: every angle the coordinator passes to the servo sink and reports in
\* telemetry is within [0, 180], whatever the heading, the body yaw and
\* the gait phase, running or standing.  (Stated on the coxa angle, the
\* one the coordinator itself computes.)
SinkAnglesInRange ==
    \A i \in 1 .. Len(angles) : angles[i].coxa \in 0 .. 180

\* C15: for tripod, wave and ripple and every gait time, every joint angle
\* of the six triples the gait engine returns lies in [0, 180], femur and
\* tibia included, in swing as well as in stance.
EngineAnglesInRange ==
    (pc = "fan" /\ running /\ gait_mode \in {"tripod", "wave", "ripple"}) =>
        \A l \in Legs :
            /\ engine_angles(l, State).coxa \in 0 .. 180000
            /\ engine_angles(l, State).femur \in 0 .. 180000
            /\ engine_angles(l, State).tibia \in 0 .. 180000

\* C16: while the robot stands (running is false) the coxa angle put out
\* for each of the six legs is 90 + body_yaw.
StandingCoxaIsYaw ==
    (pc = "telemetry" /\ ~running) =>
        \A i \in 1 .. NumLegs : angles[i].coxa = 90 + body_yaw

\* C17: for every defined gait the phase of leg i the engine uses is the
\* gait definition's phase_offsets[i]; creep walks with wave's offsets
\* 0, 1/6, 2/6, 3/6, 4/6, 5/6.
PhaseFromDefinition ==
    (pc = "fan" /\ running /\ gait_mode \in DOMAIN GaitDefinitions) =>
        \A l \in Legs :
            phase_for_leg(l, gait_mode) = GaitDefinitions[gait_mode][l + 1]

\* C18: for a mode that is no known gait joint_angles_for_time returns six
\* triples computed with phase 0 for every leg, so the six legs are in the
\* same swing or stance state at every time.
UnknownModeDegenerate ==
    \A l \in Legs :
        (base[l].src.walking
         /\ base[l].src.mode \notin {"tripod", "wave", "ripple"}) =>
            /\ DOMAIN base = Legs
            /\ phase_for_leg(l, base[l].src.mode) = 0
            /\ \A k \in Legs :
                  Swing(k, base[l].src.t, base[l].src.mode)
                      = Swing(l, base[l].src.t, base[l].src.mode)

\* A call with an unknown mode at a time when the legs are in stance.
UnknownModeSeen ==
    /\ base[0].src.walking
    /\ base[0].src.mode = "invalid_mode"
    /\ base[0].src.t > 0
    /\ \A l \in Legs : ~Swing(l, base[0].src.t, "invalid_mode")

\* C19: after every tick ground_contacts[i] is true exactly when leg i is
\* in stance: in a tick that found the robot running it is the negation of
\* the leg's swing state at the tick's gait time and mode, and in a tick
\* that found it standing all six are true.
ContactsAreStance ==
    (pc = "telemetry") =>
        \A l \in Legs :
            ground_contacts[l] =
                IF base[l].src.walking
                THEN ~Swing(l, base[l].src.t, base[l].src.mode)
                ELSE TRUE

\* A walking tick has finished with some legs in swing and some in stance.
ContactsMixedSeen ==
    /\ pc = "telemetry"
    /\ base[0].src.walking
    /\ \E l \in Legs : ground_contacts[l]
    /\ \E l \in Legs : ~ground_contacts[l]
    /\ gait_time > 0

BodyPoseFrame ==
    [][\A b \in BodyPoseBodies :
          set_body_pose(b) =>
            /\ body_pitch' = IF "pitch" \in DOMAIN b
                             THEN Clamp(-30, 30, b.pitch) ELSE body_pitch
            /\ body_roll' = IF "roll" \in DOMAIN b
                            THEN Clamp(-30, 30, b.roll) ELSE body_roll
            /\ body_yaw' = IF "yaw" \in DOMAIN b
                           THEN Clamp(-45, 45, b.yaw) ELSE body_yaw
            /\ UNCHANGED <<motion, gait_mode, body_height, leg_spread>>]_vars

\* Pitch was set by one command and kept by a later one that set roll and
\* yaw only.
BodyPoseKept ==
    /\ body_pitch = 30
    /\ body_roll = -10
    /\ body_yaw = 45

\* C22: a body-height command with a numeric height h is never rejected:
\* afterwards body_height = min(200, max(30, h)) and the value reported
\* to the caller is the stored one.
BodyHeightClamped ==
    [][\A h \in HeightInputs :
          set_body_height(h) =>
            /\ body_height' = Min(200, Max(30, h))
            /\ reply'.ok
            /\ reply'.type = "body_height"
            /\ reply'.value = body_height']_vars

\* A negative height was stored, and reported, as 30.
BodyHeightLowSeen ==
    /\ body_height = 30
    /\ reply = [ok |-> TRUE, type |-> "body_height", value |-> 30]

\* The square of the distance from the coxa joint to the target of the
\* last solve call.
SolveDistance2 ==
    LET t == reply.value
        h == Magnitude(t[1], t[2]) - ik[1]
    IN  h * h + t[3] * t[3]

\* C23: solve(x, y, z) fails exactly when the distance r from the coxa
\* joint to the target (horizontal part sqrt(x^2 + y^2) - coxa_len,
\* vertical part z) is below |femur_len - tibia_len| or above
\* femur_len + tibia_len; for every other target it returns a triple.
SolveReachability ==
    (reply.type = "solve") =>
        (~reply.ok <=>
            \/ SolveDistance2 < (ik[2] - ik[3]) * (ik[2] - ik[3])
            \/ SolveDistance2 > (ik[2] + ik[3]) * (ik[2] + ik[3]))

\* A target nearer than the least reach was refused.
SolveTooCloseSeen ==
    /\ reply.type = "solve"
    /\ ~reply.ok
    /\ SolveDistance2 < (ik[2] - ik[3]) * (ik[2] - ik[3])


\* C24: every iteration of broadcast sends to the next socket of the copy
\* and moves on to the one after it, whether the send raised or not: a
\* send that succeeds delivers the message once and leaves the active list
\* alone, a send that raises delivers nothing and removes one entry of that
\* socket from the active list; when the loop is over every socket of the
\* copy has the message or has a failing send.
BroadcastDelivers ==
    /\ [](bc_i = Len(bc_copy) + 1 =>
             \A k \in DOMAIN bc_copy :
                 received[bc_copy[k]] >= 1 \/ bc_copy[k] \in failing)
    /\ [][(bc_i \in 1 .. Len(bc_copy) /\ bc_i' # bc_i) =>
             /\ bc_i' = bc_i + 1
             /\ IF bc_copy[bc_i] \in failing
                THEN /\ received' = received
                     /\ Count(active', bc_copy[bc_i]) =
                            Max(Count(active, bc_copy[bc_i]) - 1, 0)
                ELSE /\ received'[bc_copy[bc_i]] =
                            received[bc_copy[bc_i]] + 1
                     /\ active' = active]_vars

\* C24 witness: a broadcast to two sockets is over, the send to the first
\* raised and removed it, and the second has the message.
BroadcastPastFailure ==
    /\ Len(bc_copy) = 2
    /\ bc_i = 3
    /\ bc_copy[1] \in failing
    /\ bc_copy[2] \notin failing
    /\ received[bc_copy[1]] = 0
    /\ received[bc_copy[2]] = 1
    /\ Count(active, bc_copy[1]) = 0
    /\ Count(active, bc_copy[2]) = 1


\* C30: a socket is in the active list at most once and gets a broadcast
\* message at most once, whatever connect, disconnect and broadcast calls
\* ran and however their steps were interleaved.
ActiveOnce ==
    \A w \in Sockets : Count(active, w) <= 1 /\ received[w] <= 1


\* C25: after every tick that found the robot running, whatever gait is
\* selected, at least three legs are in stance: ground_contacts has three
\* or more true entries.
ThreeLegsInStance ==
    (pc = "telemetry" /\ base[0].src.walking) =>
        Cardinality({l \in Legs : ground_contacts[l]}) >= 3


\* C26: gait_mode names a gait that the loaded configuration has enabled,
\* after every sequence of set-gait, gait enable and disable, configuration
\* update, configuration reset and profile switch commands.
GaitModeEnabled == gait_mode \in enabled


\* C27: a command that is answered with an error (a body-pose or
\* gait-parameter body with a value that is no number, a set-gait request
\* for a gait that is not enabled, an apply of a pose that is not stored)
\* changes no field of the controller and no gait parameter.
RejectedChangesNothing ==
    [][((\E b \in InvalidPoseBodies : set_body_pose(b))
          \/ (\E b \in InvalidParamBodies : set_gait_params(b))
          \/ (\E m \in GaitRequests : m \notin enabled /\ set_gait(m))
          \/ (\E id \in PoseTargets :
                 ~PoseFound(id) /\ manage_poses_apply(id)))
         => UNCHANGED <<robot, params, turn_rate>>]_vars


\* C28: once an emergency stop has been answered and no further command
\* arrives, running is false, no step of a tick changes a controller
\* field or the gait time (so heading and gait_time stay as they are), and
\* every tick sends the sink the angles of that unchanged state, the same
\* from one tick to the next.
StillAfterEStop ==
    /\ [](Halted => ~running)
    /\ []((Halted /\ pc = "telemetry") =>
             angles = [i \in 1 .. NumLegs |->
                         LegAngles(State, BaseAngles(State)[i - 1])])
    /\ [][(Halted /\ Halted') => UNCHANGED <<robot, engine>>]_vars

\* C28 witness: a tick has finished after the emergency stop of a robot
\* that had walked and turned away from heading 0.
TickAfterEStop ==
    /\ Halted
    /\ pc = "telemetry"
    /\ Len(angles) = NumLegs
    /\ gait_time > 0
    /\ heading # 0


\* C29: whenever the patrol status is "running" the controller's running
\* flag is true, after every interleaving of patrol start, stop, pause and
\* resume with run, stop, pose-apply and emergency-stop commands.
PatrolRunningWalks == (patrol_status = "running") => running

==========================================================================
